---- MODULE Spec2Model ----
(***************************************************************************)
(* MSA feature generators of chai_lab/data/features/generators/msa.py.     *)
(*                                                                         *)
(* A tensor is a record [shape, at]: shape is the tuple of extents and at  *)
(* maps every index tuple (1-based positions) to the element.  The batch   *)
(* is a record of named tensors; get_input_kwargs_from_batch hands out     *)
(* references to those tensors (field names), _generate reads them.        *)
(* Every tensor operation is modelled by what it does to the storage of    *)
(* its operand (self) and by the tensor it returns (result).               *)
(*                                                                         *)
(* Floating point quotients are modelled as exact reduced fractions        *)
(* <<num, den>>; arctan is evaluated in decimal fixed point.               *)
(***************************************************************************)
EXTENDS Integers, Naturals, Sequences, FiniteSets, TLC

VARIABLES batch, kwargs, out, config, source_values

vars == <<batch, kwargs, out, config, source_values>>

(***************************************************************************)
(* Bounds of the model.                                                    *)
(***************************************************************************)
NB == 2            \* batch entries
ND == 2            \* alignment rows of the full MSA (and of a small main MSA)
NT == 2            \* token positions
NumResTy == 3      \* size of the residue vocabulary used by the model
MaxMainDepth == 256 \* deepest main MSA that is explored
MaxVocab == 4      \* largest data-source vocabulary that is explored

(***************************************************************************)
(* Program constants.                                                      *)
(***************************************************************************)
UInt8Mod == 256                 \* torch.uint8 arithmetic wraps modulo 2^8
DefaultNumClasses == 5          \* MSADataSourceGenerator(num_classes=5)
UNKNOWN_SPECIES == 0            \* reserved species identifier
FixedOne == 1000000             \* 1.0 in the fixed point used for floats
PiOver2 == 1570796              \* pi/2 in fixed point
PiOver4 == 785398               \* pi/4 = arctan(1) in fixed point
TwoOverPi == 636620             \* the Python float 2.0 / torch.pi

Gens == {"MSAFeature", "MSAHasDeletion", "MSADeletionValue", "MSAProfile",
         "MSADeletionMean", "IsPairedMSA", "MSADataSource"}

Fields == {"msa_tokens", "msa_deletion_matrix", "main_msa_tokens",
           "main_msa_mask", "main_msa_deletion_matrix", "msa_mask",
           "msa_species", "msa_sequence_source"}

(***************************************************************************)
(* Tensors.                                                                *)
(***************************************************************************)
Idx3(s) == (1..s[1]) \X (1..s[2]) \X (1..s[3])

Mk3(s, F(_, _, _)) == [shape |-> s, at |-> [i \in Idx3(s) |-> F(i[1], i[2], i[3])]]

NoTensor == [shape |-> <<>>, at |-> [i \in {} |-> 0]]

IsTensor(x) == Len(x.shape) > 0

\* torch.zeros / a constant fill of the given shape
Full(s, v) == Mk3(s, LAMBDA b, r, t : v)

\* x.unsqueeze(-1): a trailing dimension of extent 1
unsqueeze(x) ==
    [shape |-> Append(x.shape, 1),
     at |-> [i \in {Append(j, 1) : j \in DOMAIN x.at} |-> x.at[SubSeq(i, 1, Len(i) - 1)]]]

\* ~mask
invert(m) == [shape |-> m.shape, at |-> [i \in DOMAIN m.at |-> ~m.at[i]]]

\* a & b, elementwise on equal shapes
and_(a, b) == [shape |-> a.shape, at |-> [i \in DOMAIN a.at |-> a.at[i] /\ b.at[i]]]

\* x.to(torch.uint8) / mask.to(dtype) of a boolean tensor
to_uint8(m) == [shape |-> m.shape, at |-> [i \in DOMAIN m.at |-> IF m.at[i] THEN 1 ELSE 0]]

\* x.float() of a uint8 tensor: every value 0..255 is a float32, unchanged
float(x) == [shape |-> x.shape, at |-> [i \in DOMAIN x.at |-> x.at[i] % UInt8Mod]]

\* self.masked_fill_(mask, value): in place
masked_fill_inplace(self, mask, value) ==
    LET filled == [shape |-> self.shape,
                   at |-> [i \in DOMAIN self.at |-> IF mask.at[i] THEN value ELSE self.at[i]]]
    IN  [self |-> filled, result |-> filled]

\* self.masked_fill(mask, value): out of place, self keeps its storage
masked_fill(self, mask, value) ==
    LET filled == [shape |-> self.shape,
                   at |-> [i \in DOMAIN self.at |-> IF mask.at[i] THEN value ELSE self.at[i]]]
    IN  [self |-> self, result |-> filled]

(***************************************************************************)
(* Fractions: the model of a floating point quotient.                      *)
(***************************************************************************)
RECURSIVE Gcd(_, _)
Gcd(a, b) == IF b = 0 THEN a ELSE Gcd(b, a % b)

Frac(n, d) == LET g == Gcd(n, d) IN IF n = 0 THEN <<0, 1>> ELSE <<n \div g, d \div g>>

FracAdd(x, y) == Frac(x[1] * y[2] + y[1] * x[2], x[2] * y[2])

(***************************************************************************)
(* Fixed point arithmetic: the model of float arithmetic with              *)
(* transcendental values.  Products and quotients round to nearest.        *)
(***************************************************************************)
RoundDiv(a, b) == (2 * a + b) \div (2 * b)

\* x * y in fixed point for 0 <= x < 2*FixedOne, 0 <= y < FixedOne, rounded;
\* the product is formed in two halves to stay inside 32-bit integers
FixMul(x, y) ==
    LET hi == x * (y \div 1000)
        lo == x * (y % 1000)
    IN  (hi \div 1000) + RoundDiv((hi % 1000) * 1000 + lo, FixedOne)

\* sum_{n>=k} (-1)^(n-k) term_n / (2n+1), term_{n+1} = term_n * p^2 / q^2
RECURSIVE AtanSeries(_, _, _, _)
AtanSeries(term, k, p, q) ==
    IF term = 0 THEN 0
    ELSE RoundDiv(term, 2 * k + 1) - AtanSeries((term * p * p) \div (q * q), k + 1, p, q)

\* arctan(p/q) for 0 < p < q, Maclaurin series
AtanSmall(p, q) == AtanSeries(RoundDiv(FixedOne * p, q), 0, p, q)

\* torch.arctan of the non-negative float p/q
arctan(p, q) ==
    IF p = 0 THEN 0
    ELSE IF p = q THEN PiOver4
    ELSE IF p < q THEN AtanSmall(p, q)
    ELSE PiOver2 - AtanSmall(q, p)

(***************************************************************************)
(* MSAFeatureGenerator._generate                                           *)
(* Every _generate returns the tensors its arguments refer to as the call  *)
(* leaves them (inputs) and the data it hands to make_feature (data).      *)
(***************************************************************************)
MSAFeature_generate(msa_tokens) ==
    [inputs |-> [msa_tokens |-> msa_tokens], data |-> unsqueeze(msa_tokens)]

(***************************************************************************)
(* MSAHasDeletionGenerator._generate                                       *)
(***************************************************************************)
MSAHasDeletion_generate_gt1(msa_deletion_matrix) ==
    LET has_deletion == [shape |-> msa_deletion_matrix.shape,
                         at |-> [i \in DOMAIN msa_deletion_matrix.at |->
                                    msa_deletion_matrix.at[i] > 1]]
    IN  [inputs |-> [msa_deletion_matrix |-> msa_deletion_matrix],
         data |-> unsqueeze(has_deletion)]

MSAHasDeletion_generate(msa_deletion_matrix) ==
    LET has_deletion == [shape |-> msa_deletion_matrix.shape,
                         at |-> [i \in DOMAIN msa_deletion_matrix.at |->
                                    msa_deletion_matrix.at[i] > 0]]
    IN  [inputs |-> [msa_deletion_matrix |-> msa_deletion_matrix],
         data |-> unsqueeze(has_deletion)]

(***************************************************************************)
(* MSADeletionValueGenerator._generate                                     *)
(* d_scaled = 2.0 / torch.pi * torch.arctan(d.float() / 3.0)               *)
(***************************************************************************)
MSADeletionValue_generate_div2(msa_deletion_matrix) ==
    LET x == float(msa_deletion_matrix)
        counts == {x.at[i] : i \in DOMAIN x.at}
        scale == [d \in counts |-> FixMul(arctan(d, 2), TwoOverPi)]
        d_scaled == [shape |-> x.shape, at |-> [i \in DOMAIN x.at |-> scale[x.at[i]]]]
    IN  [inputs |-> [msa_deletion_matrix |-> msa_deletion_matrix],
         data |-> unsqueeze(d_scaled)]

\* the elementwise function is evaluated once for every count that occurs
MSADeletionValue_generate(msa_deletion_matrix) ==
    LET x == float(msa_deletion_matrix)
        counts == {x.at[i] : i \in DOMAIN x.at}
        scale == [d \in counts |-> FixMul(arctan(d, 3), TwoOverPi)]
        d_scaled == [shape |-> x.shape, at |-> [i \in DOMAIN x.at |-> scale[x.at[i]]]]
    IN  [inputs |-> [msa_deletion_matrix |-> msa_deletion_matrix],
         data |-> unsqueeze(d_scaled)]

(***************************************************************************)
(* MSAProfileGenerator._generate                                           *)
(***************************************************************************)
\* rearrange(x, "batch depth tokens -> batch tokens depth")
rearrange(x) ==
    Mk3(<<x.shape[1], x.shape[3], x.shape[2]>>, LAMBDA b, t, d : x.at[<<b, d, t>>])

\* what the entries lo..hi of src along dim 2 add to self[b, t, c], in the
\* arithmetic of self's dtype (uint8); wrapping addition is associative, so
\* the rows are added by halves
RECURSIVE ScatterAcc(_, _, _, _, _, _, _)
ScatterAcc(index, src, b, t, c, lo, hi) ==
    IF lo > hi THEN 0
    ELSE IF lo = hi
    THEN (IF index.at[<<b, t, lo>>] + 1 = c THEN src.at[<<b, t, lo>>] % UInt8Mod ELSE 0)
    ELSE LET mid == (lo + hi) \div 2
         IN  (ScatterAcc(index, src, b, t, c, lo, mid)
              + ScatterAcc(index, src, b, t, c, mid + 1, hi)) % UInt8Mod

\* self.scatter_add(dim=2, index, src) on a uint8 tensor; the class with
\* code k is position k + 1 of the last dimension
scatter_add(self, index, src) ==
    Mk3(self.shape, LAMBDA b, t, c :
            (self.at[<<b, t, c>>]
             + ScatterAcc(index, src, b, t, c, 1, index.shape[3])) % UInt8Mod)

RECURSIVE SumLast(_, _, _, _)
SumLast(x, b, t, c) == IF c = 0 THEN 0 ELSE x.at[<<b, t, c>>] + SumLast(x, b, t, c - 1)

\* x.sum(dim=-1, keepdim=True): integer sums are accumulated in int64
sum_keepdim(x) ==
    Mk3(<<x.shape[1], x.shape[2], 1>>, LAMBDA b, t, c : SumLast(x, b, t, x.shape[3]))

\* self.clamp_min_(m): in place, self and the result are the same tensor
clamp_min_(self, m) ==
    LET clamped == [shape |-> self.shape,
                    at |-> [i \in DOMAIN self.at |-> IF self.at[i] < m THEN m ELSE self.at[i]]]
    IN  [self |-> clamped, result |-> clamped]

\* x / denom, denom broadcast along the last dimension: true division
div_broadcast(x, denom) ==
    Mk3(x.shape, LAMBDA b, t, c : Frac(x.at[<<b, t, c>>], denom.at[<<b, t, 1>>]))

MSAProfile_generate(num_res_ty, main_msa_tokens, main_msa_mask) ==
    LET nbatch == main_msa_tokens.shape[1]
        tokens == main_msa_tokens.shape[3]
        unnormalized_profile ==
            scatter_add(Full(<<nbatch, tokens, num_res_ty>>, 0),
                        rearrange(main_msa_tokens),
                        rearrange(to_uint8(main_msa_mask)))
        denom == clamp_min_(sum_keepdim(unnormalized_profile), 1).result
        profile == div_broadcast(unnormalized_profile, denom)
    IN  [inputs |-> [main_msa_tokens |-> main_msa_tokens, main_msa_mask |-> main_msa_mask],
         data |-> profile]

(***************************************************************************)
(* MSADeletionMeanGenerator._generate                                      *)
(***************************************************************************)
\* (mask * value) summed over the rows lo..hi of dim 1
RECURSIVE SumDim1(_, _, _, _, _, _)
SumDim1(mask, value, b, t, lo, hi) ==
    IF lo > hi THEN 0
    ELSE IF lo = hi THEN (IF mask.at[<<b, lo, t>>] THEN value.at[<<b, lo, t>>] ELSE 0)
    ELSE LET mid == (lo + hi) \div 2
         IN  SumDim1(mask, value, b, t, lo, mid) + SumDim1(mask, value, b, t, mid + 1, hi)

\* chai_lab.utils.tensor_utils.masked_mean(mask, value, dim=1): the sum of
\* mask * value over the rows divided by the sum of mask, zero where no row
\* is valid
masked_mean(mask, value) ==
    LET ones == Full(value.shape, 1)
        cell(b, t) ==
            LET n == SumDim1(mask, ones, b, t, 1, value.shape[2])
            IN  IF n = 0 THEN <<0, 1>> ELSE Frac(SumDim1(mask, value, b, t, 1, value.shape[2]), n)
    IN  [shape |-> <<value.shape[1], value.shape[3]>>,
         at |-> [i \in (1..value.shape[1]) \X (1..value.shape[3]) |-> cell(i[1], i[2])]]

MSADeletionMean_generate_nomask(main_msa_mask, main_msa_deletion_matrix) ==
    LET mean_deletion_matrix ==
            masked_mean(Full(main_msa_mask.shape, TRUE), float(main_msa_deletion_matrix))
    IN  [inputs |-> [main_msa_mask |-> main_msa_mask,
                     main_msa_deletion_matrix |-> main_msa_deletion_matrix],
         data |-> unsqueeze(mean_deletion_matrix)]

MSADeletionMean_generate(main_msa_mask, main_msa_deletion_matrix) ==
    LET mean_deletion_matrix ==
            masked_mean(main_msa_mask, float(main_msa_deletion_matrix))
    IN  [inputs |-> [main_msa_mask |-> main_msa_mask,
                     main_msa_deletion_matrix |-> main_msa_deletion_matrix],
         data |-> unsqueeze(mean_deletion_matrix)]

(***************************************************************************)
(* IsPairedMSAGenerator._generate                                          *)
(***************************************************************************)
\* x[..., :1]: the first position of the last dimension, for every index of
\* the leading dimensions
slice_last_first(x) ==
    Mk3(<<x.shape[1], x.shape[2], 1>>, LAMBDA b, r, t : x.at[<<b, r, 1>>])

\* x[:, :1]: the first position of dimension 1 (the first alignment row)
slice_row_first(x) ==
    Mk3(<<x.shape[1], 1, x.shape[3]>>, LAMBDA b, r, t : x.at[<<b, 1, t>>])

\* a == b with b broadcast along every dimension where its extent is 1
eq_broadcast(a, b) ==
    Mk3(a.shape, LAMBDA i, j, k :
            a.at[<<i, j, k>>] = b.at[<<IF b.shape[1] = 1 THEN 1 ELSE i,
                                       IF b.shape[2] = 1 THEN 1 ELSE j,
                                       IF b.shape[3] = 1 THEN 1 ELSE k>>])

\* x != scalar
ne_scalar(x, v) == [shape |-> x.shape, at |-> [i \in DOMAIN x.at |-> x.at[i] # v]]

IsPairedMSA_generate_row0(msa_mask, msa_species) ==
    LET first_species == slice_row_first(msa_species)
        is_paired == to_uint8(eq_broadcast(msa_species, first_species))
        mask == and_(msa_mask, ne_scalar(msa_species, UNKNOWN_SPECIES))
        filled == masked_fill(is_paired, invert(mask), 0).result
    IN  [inputs |-> [msa_mask |-> msa_mask, msa_species |-> msa_species],
         data |-> unsqueeze(filled)]

IsPairedMSA_generate_keepunknown(msa_mask, msa_species) ==
    LET first_species == slice_last_first(msa_species)
        is_paired == to_uint8(eq_broadcast(msa_species, first_species))
        filled == masked_fill(is_paired, invert(msa_mask), 0).result
    IN  [inputs |-> [msa_mask |-> msa_mask, msa_species |-> msa_species],
         data |-> unsqueeze(filled)]

IsPairedMSA_generate(msa_mask, msa_species) ==
    LET first_species == slice_last_first(msa_species)
        is_paired == to_uint8(eq_broadcast(msa_species, first_species))
        mask == and_(msa_mask, ne_scalar(msa_species, UNKNOWN_SPECIES))
        filled == masked_fill(is_paired, invert(mask), 0).result
    IN  [inputs |-> [msa_mask |-> msa_mask, msa_species |-> msa_species],
         data |-> unsqueeze(filled)]

(***************************************************************************)
(* MSADataSourceGenerator                                                  *)
(***************************************************************************)
Max(S) == CHOOSE x \in S : \A y \in S : y <= x

Unbuilt == [state |-> "unbuilt", requested |-> 0, ty |-> "none", encoding_ty |-> "none",
            can_mask |-> FALSE, num_classes |-> 0]

\* FeatureGenerator.__init__ as called by the generators: the declarations
Declared(requested, ty, encoding_ty, can_mask, num_classes) ==
    [state |-> "ok", requested |-> requested, ty |-> ty, encoding_ty |-> encoding_ty,
     can_mask |-> can_mask, num_classes |-> num_classes]

\* __init__(num_classes): the assertion fails and no object exists, or the
\* generator is declared with the class count it was given
MSADataSource_init_maxonly(num_classes, values) ==
    IF num_classes = Max(values)
    THEN Declared(num_classes, "MSA", "ONE_HOT", TRUE, num_classes)
    ELSE [Unbuilt EXCEPT !.state = "failed", !.requested = num_classes]

MSADataSource_init(num_classes, values) ==
    IF num_classes = Max(values) + 1
    THEN Declared(num_classes, "MSA", "ONE_HOT", TRUE, num_classes)
    ELSE [Unbuilt EXCEPT !.state = "failed", !.requested = num_classes]

MSADataSource_generate_keepvalid(num_classes, msa_mask, msa_sequence_source) ==
    LET filled == masked_fill(msa_sequence_source, msa_mask, num_classes)
    IN  [inputs |-> [msa_mask |-> msa_mask, msa_sequence_source |-> filled.self],
         data |-> unsqueeze(filled.result)]

MSADataSource_generate(num_classes, msa_mask, msa_sequence_source) ==
    LET filled == masked_fill(msa_sequence_source, invert(msa_mask), num_classes)
    IN  [inputs |-> [msa_mask |-> msa_mask, msa_sequence_source |-> filled.self],
         data |-> unsqueeze(filled.result)]

(***************************************************************************)
(* The generators' declarations (their __init__) and argument names.       *)
(***************************************************************************)
Built(num_res_ty, data_source) ==
    [g \in Gens |->
        CASE g = "MSAFeature" -> Declared(0, "MSA", "ONE_HOT", FALSE, num_res_ty)
          [] g = "MSAHasDeletion" -> Declared(0, "MSA", "IDENTITY", FALSE, 1)
          [] g = "MSADeletionValue" -> Declared(0, "MSA", "IDENTITY", FALSE, 1)
          [] g = "MSAProfile" -> Declared(0, "TOKEN", "IDENTITY", FALSE, num_res_ty)
          [] g = "MSADeletionMean" -> Declared(0, "TOKEN", "IDENTITY", FALSE, 1)
          [] g = "IsPairedMSA" -> Declared(0, "MSA", "IDENTITY", FALSE, 1)
          [] g = "MSADataSource" -> data_source]

\* get_input_kwargs_from_batch: <<parameter, batch field>> pairs; the
\* returned dict refers to the batch's own tensors
KwargsOf(g) ==
    CASE g = "MSAFeature" -> {<<"msa_tokens", "msa_tokens">>}
      [] g = "MSAHasDeletion" -> {<<"msa_deletion_matrix", "msa_deletion_matrix">>}
      [] g = "MSADeletionValue" -> {<<"msa_deletion_matrix", "msa_deletion_matrix">>}
      [] g = "MSAProfile" -> {<<"main_msa_tokens", "main_msa_tokens">>,
                              <<"main_msa_mask", "main_msa_mask">>}
      [] g = "MSADeletionMean" -> {<<"main_msa_mask", "main_msa_mask">>,
                                   <<"main_msa_deletion_matrix", "main_msa_deletion_matrix">>}
      [] g = "IsPairedMSA" -> {<<"msa_mask", "msa_mask">>, <<"msa_species", "msa_species">>}
      [] g = "MSADataSource" -> {<<"msa_mask", "msa_mask">>,
                                 <<"msa_sequence_source", "msa_sequence_source">>}

\* the tensor a keyword argument refers to
Arg(kw, b, p) == b[(CHOOSE pr \in kw : pr[1] = p)[2]]

\* self._generate(**kwargs) of generator g on the tensors of batch b
Call(g, cfg, kw, b) ==
    CASE g = "MSAFeature" -> MSAFeature_generate(Arg(kw, b, "msa_tokens"))
      [] g = "MSAHasDeletion" -> MSAHasDeletion_generate(Arg(kw, b, "msa_deletion_matrix"))
      [] g = "MSADeletionValue" -> MSADeletionValue_generate(Arg(kw, b, "msa_deletion_matrix"))
      [] g = "MSAProfile" ->
            MSAProfile_generate(cfg.num_classes, Arg(kw, b, "main_msa_tokens"),
                                Arg(kw, b, "main_msa_mask"))
      [] g = "MSADeletionMean" ->
            MSADeletionMean_generate(Arg(kw, b, "main_msa_mask"),
                                     Arg(kw, b, "main_msa_deletion_matrix"))
      [] g = "IsPairedMSA" ->
            IsPairedMSA_generate(Arg(kw, b, "msa_mask"), Arg(kw, b, "msa_species"))
      [] g = "MSADataSource" ->
            MSADataSource_generate(cfg.num_classes, Arg(kw, b, "msa_mask"),
                                   Arg(kw, b, "msa_sequence_source"))

(***************************************************************************)
(* Actions.                                                                *)
(***************************************************************************)
\* MSADataSourceGenerator(num_classes = n)
Construct(n) ==
    /\ config["MSADataSource"].state # "ok"
    /\ config' = [config EXCEPT !["MSADataSource"] = MSADataSource_init(n, source_values)]
    /\ UNCHANGED <<batch, kwargs, out, source_values>>

\* kwargs = g.get_input_kwargs_from_batch(batch)
GetKwargs(g) ==
    /\ config[g].state = "ok"
    /\ kwargs' = [kwargs EXCEPT ![g] = KwargsOf(g)]
    /\ UNCHANGED <<batch, out, config, source_values>>

\* g._generate(**kwargs): the arguments are the batch's tensors, so what the
\* call does to them it does to the batch
Generate(g) ==
    /\ config[g].state = "ok"
    /\ kwargs[g] # {}
    /\ LET r == Call(g, config[g], kwargs[g], batch)
       IN  /\ batch' = [f \in Fields |->
                          IF \E pr \in kwargs[g] : pr[2] = f
                          THEN r.inputs[(CHOOSE pr \in kwargs[g] : pr[2] = f)[1]]
                          ELSE batch[f]]
           /\ out' = [out EXCEPT ![g] = r.data]
    /\ UNCHANGED <<kwargs, config, source_values>>

(***************************************************************************)
(* Inputs.                                                                 *)
(***************************************************************************)
FullShape == <<NB, ND, NT>>

\* the known data-source vocabulary msa_dataset_source_to_int.values():
\* consecutive codes from 0, the last one standing for "no source"
Vocabulary(size) == 0..(size - 1)

RecognizedCodes(values) == values \ {Max(values)}

\* a full-MSA tensor made of a base alignment of ND rows and width columns:
\* the base columns repeat along the token axis, and every batch entry is
\* the one before it with its columns rotated by one
FromBase(base, width) ==
    Mk3(FullShape, LAMBDA b, r, t : base[<<r, ((t + b - 2) % width) + 1>>])

\* the cells of a base alignment of every token, and of two token groups
BaseCells == (1..ND) \X (1..NT)

PairCells == (1..ND) \X (1..2)

\* the fields a specification does not use hold one valid, zero entry
DefaultBatch ==
    [f \in Fields |->
        IF f \in {"msa_mask", "main_msa_mask"} THEN Full(<<1, 1, 1>>, TRUE)
        ELSE Full(<<1, 1, 1>>, 0)]

Start(b, cfg, values) ==
    /\ batch = b
    /\ kwargs = [g \in Gens |-> {}]
    /\ out = [g \in Gens |-> NoTensor]
    /\ config = cfg
    /\ source_values = values

DefaultBuilt ==
    Built(NumResTy, Declared(DefaultNumClasses, "MSA", "ONE_HOT", TRUE, DefaultNumClasses))

\* deletion counts used where the whole grid is enumerated
DelVals == {0, 1, 5}

(***************************************************************************)
(* Has-deletion feature on every deletion matrix over DelVals.             *)
(***************************************************************************)
InitHasDeletion ==
    \E base \in [BaseCells -> DelVals] :
        Start([DefaultBatch EXCEPT !["msa_deletion_matrix"] = FromBase(base, NT)],
              DefaultBuilt, Vocabulary(DefaultNumClasses))

NextHasDeletion == GetKwargs("MSAHasDeletion") \/ Generate("MSAHasDeletion")

SpecHasDeletion == InitHasDeletion /\ [][NextHasDeletion]_vars

\* the scenario of one batch entry, two rows, three tokens
ExampleDeletion == Mk3(<<1, 2, 3>>, LAMBDA b, r, t : <<<<1, 0, 5>>, <<0, 0, 0>>>>[r][t])

ExampleHasDeletion ==
    Mk3(<<1, 2, 3>>, LAMBDA b, r, t : <<<<TRUE, FALSE, TRUE>>, <<FALSE, FALSE, FALSE>>>>[r][t])

\* C8: the has-deletion output has the input's batch/depth/token extents (and
\* a trailing extent 1) and is true at [b,r,t] exactly when the deletion
\* count there is positive; [[1,0,5],[0,0,0]] gives [[T,F,T],[F,F,F]].
C8_HasDeletion ==
    /\ MSAHasDeletion_generate(ExampleDeletion).data = unsqueeze(ExampleHasDeletion)
    /\ IsTensor(out["MSAHasDeletion"]) =>
         LET x == batch["msa_deletion_matrix"]
             o == out["MSAHasDeletion"]
         IN  /\ o.shape = <<x.shape[1], x.shape[2], x.shape[3], 1>>
             /\ DOMAIN o.at = {Append(i, 1) : i \in Idx3(x.shape)}
             /\ \A i \in Idx3(x.shape) :
                    /\ x.at[i] > 0 => o.at[Append(i, 1)] = TRUE
                    /\ x.at[i] = 0 => o.at[Append(i, 1)] = FALSE

C8_Witness ==
    /\ IsTensor(out["MSAHasDeletion"])
    /\ \E i, j \in Idx3(FullShape) :
          /\ batch["msa_deletion_matrix"].at[i] = 5
          /\ batch["msa_deletion_matrix"].at[j] = 0
          /\ out["MSAHasDeletion"].at[Append(i, 1)]
          /\ ~out["MSAHasDeletion"].at[Append(j, 1)]

(***************************************************************************)
(* Deletion-value feature: the grid alternates between two deletion        *)
(* counts, every pair of uint8 counts is tried.                            *)
(***************************************************************************)
UInt8 == 0..(UInt8Mod - 1)

InitDeletionValue ==
    \E d1, d2 \in UInt8 :
        Start([DefaultBatch EXCEPT !["msa_deletion_matrix"] =
                  Mk3(FullShape, LAMBDA b, r, t : IF (b + r + t) % 2 = 1 THEN d1 ELSE d2)],
              DefaultBuilt, Vocabulary(DefaultNumClasses))

NextDeletionValue == GetKwargs("MSADeletionValue") \/ Generate("MSADeletionValue")

SpecDeletionValue == InitDeletionValue /\ [][NextDeletionValue]_vars

\* C5: the scaled deletion value is 0 at d = 0, 0.5 at d = 3, strictly
\* increasing in d over the uint8 counts, and lies in [0, 1).
C5_Scale ==
    IsTensor(out["MSADeletionValue"]) =>
        LET x == batch["msa_deletion_matrix"]
            o == out["MSADeletionValue"]
            \* <<deletion count, scaled value>> of every position
            scaled == {<<x.at[i], o.at[Append(i, 1)]>> : i \in Idx3(x.shape)}
        IN  /\ DOMAIN o.at = {Append(i, 1) : i \in Idx3(x.shape)}
            /\ \A p \in scaled :
                  /\ p[1] = 0 => p[2] = 0
                  /\ p[1] = 3 => 2 * p[2] = FixedOne
                  /\ 0 <= p[2]
                  /\ p[2] < FixedOne
            /\ \A p, q \in scaled : p[1] < q[1] => p[2] < q[2]

C5_Witness ==
    /\ IsTensor(out["MSADeletionValue"])
    /\ \E i, j \in Idx3(FullShape) :
          /\ batch["msa_deletion_matrix"].at[i] = 3
          /\ batch["msa_deletion_matrix"].at[j] = UInt8Mod - 1
          /\ 2 * out["MSADeletionValue"].at[Append(i, 1)] = FixedOne
          /\ out["MSADeletionValue"].at[Append(j, 1)] > out["MSADeletionValue"].at[Append(i, 1)]

(***************************************************************************)
(* Paired-MSA feature on every alignment of two token groups over          *)
(* PairedCells.                                                            *)
(***************************************************************************)
\* <<valid, species>> of one alignment cell
PairedCells == {<<FALSE, 1>>, <<TRUE, UNKNOWN_SPECIES>>, <<TRUE, 1>>, <<TRUE, 2>>}

InitPaired ==
    \E base \in [PairCells -> PairedCells] :
        Start([DefaultBatch EXCEPT
                  !["msa_mask"] = FromBase([i \in PairCells |-> base[i][1]], 2),
                  !["msa_species"] = FromBase([i \in PairCells |-> base[i][2]], 2)],
              DefaultBuilt, Vocabulary(DefaultNumClasses))

NextPaired == GetKwargs("IsPairedMSA") \/ Generate("IsPairedMSA")

SpecPaired == InitPaired /\ [][NextPaired]_vars

\* C2 as stated: the output at [b,r,t] is 1 exactly when the species there
\* equals the species of alignment row 0 at the same token t, the entry is
\* valid and its species is not UNKNOWN.
C2_PairedWithRow0 ==
    IsTensor(out["IsPairedMSA"]) =>
        \A i \in Idx3(FullShape) :
            out["IsPairedMSA"].at[Append(i, 1)] = 1 <=>
                /\ batch["msa_species"].at[i] = batch["msa_species"].at[<<i[1], 1, i[3]>>]
                /\ batch["msa_mask"].at[i]
                /\ batch["msa_species"].at[i] # UNKNOWN_SPECIES

\* C2 amended: the output at [b,r,t] is 1 exactly when the species there
\* equals the species of the same row r at token 0, the entry is valid and
\* its species is not UNKNOWN; it is 0 otherwise.
C2_PairedWithFirstToken ==
    IsTensor(out["IsPairedMSA"]) =>
        \A i \in Idx3(FullShape) :
            /\ out["IsPairedMSA"].at[Append(i, 1)] \in {0, 1}
            /\ out["IsPairedMSA"].at[Append(i, 1)] = 1 <=>
                /\ batch["msa_species"].at[i] = batch["msa_species"].at[<<i[1], i[2], 1>>]
                /\ batch["msa_mask"].at[i]
                /\ batch["msa_species"].at[i] # UNKNOWN_SPECIES

\* a valid entry of a later row and a later token that has the species of
\* its row's first token but not the species of row 0 at its token
C2_Witness ==
    /\ IsTensor(out["IsPairedMSA"])
    /\ \E i \in Idx3(FullShape) :
          /\ i[2] > 1
          /\ i[3] > 1
          /\ batch["msa_mask"].at[i]
          /\ batch["msa_species"].at[i] # UNKNOWN_SPECIES
          /\ batch["msa_species"].at[i] = batch["msa_species"].at[<<i[1], i[2], 1>>]
          /\ batch["msa_species"].at[i] # batch["msa_species"].at[<<i[1], 1, i[3]>>]
          /\ out["IsPairedMSA"].at[Append(i, 1)] = 1

\* C9: an entry marked paired is valid and not of UNKNOWN species.
C9_PairedOnlyValidKnown ==
    IsTensor(out["IsPairedMSA"]) =>
        \A i \in Idx3(FullShape) :
            out["IsPairedMSA"].at[Append(i, 1)] = 1 =>
                /\ batch["msa_mask"].at[i]
                /\ batch["msa_species"].at[i] # UNKNOWN_SPECIES

\* the species comparison is true for an invalid entry and for an entry of
\* UNKNOWN species, and neither is marked
C9_Witness ==
    /\ IsTensor(out["IsPairedMSA"])
    /\ \E i, j \in Idx3(FullShape) :
          /\ ~batch["msa_mask"].at[i]
          /\ batch["msa_species"].at[i] = batch["msa_species"].at[<<i[1], i[2], 1>>]
          /\ out["IsPairedMSA"].at[Append(i, 1)] = 0
          /\ batch["msa_mask"].at[j]
          /\ batch["msa_species"].at[j] = UNKNOWN_SPECIES
          /\ batch["msa_species"].at[j] = batch["msa_species"].at[<<j[1], j[2], 1>>]
          /\ out["IsPairedMSA"].at[Append(j, 1)] = 0

(***************************************************************************)
(* Data-source feature of the default generator on every alignment of two  *)
(* token groups over DataSourceCells.                                      *)
(***************************************************************************)
\* <<valid, source code>> of one alignment cell
DataSourceCells == BOOLEAN \X {0, DefaultNumClasses - 1}

InitDataSource ==
    \E base \in [PairCells -> DataSourceCells] :
        Start([DefaultBatch EXCEPT
                  !["msa_mask"] = FromBase([i \in PairCells |-> base[i][1]], 2),
                  !["msa_sequence_source"] = FromBase([i \in PairCells |-> base[i][2]], 2)],
              DefaultBuilt, Vocabulary(DefaultNumClasses))

NextDataSource == GetKwargs("MSADataSource") \/ Generate("MSADataSource")

SpecDataSource == InitDataSource /\ [][NextDataSource]_vars

\* C1 as stated: every masked-out position's output is num_classes - 1.
C1_MaskedIsNumClassesMinus1 ==
    IsTensor(out["MSADataSource"]) =>
        \A i \in Idx3(FullShape) :
            ~batch["msa_mask"].at[i] =>
                out["MSADataSource"].at[Append(i, 1)] = config["MSADataSource"].num_classes - 1

\* C1 amended: every masked-out position's output is num_classes, whatever
\* its source code was (and a valid position keeps its source code).
C1_MaskedIsNumClasses ==
    IsTensor(out["MSADataSource"]) =>
        \A i \in Idx3(FullShape) :
            /\ ~batch["msa_mask"].at[i] =>
                  out["MSADataSource"].at[Append(i, 1)] = config["MSADataSource"].num_classes
            /\ batch["msa_mask"].at[i] =>
                  out["MSADataSource"].at[Append(i, 1)] = batch["msa_sequence_source"].at[i]

C1_Witness ==
    /\ IsTensor(out["MSADataSource"])
    /\ \E i, j \in Idx3(FullShape) :
          /\ ~batch["msa_mask"].at[i]
          /\ ~batch["msa_mask"].at[j]
          /\ batch["msa_sequence_source"].at[i] = 0
          /\ batch["msa_sequence_source"].at[j] = DefaultNumClasses - 1
          /\ out["MSADataSource"].at[Append(i, 1)] = DefaultNumClasses
          /\ out["MSADataSource"].at[Append(j, 1)] = DefaultNumClasses

(***************************************************************************)
(* Construction of the data-source generator against vocabularies of       *)
(* every size up to MaxVocab, followed by its use.                         *)
(***************************************************************************)
InitConstruct ==
    \E size \in 1..MaxVocab, m \in BOOLEAN :
        \E c \in {0, size - 1} :
            Start([DefaultBatch EXCEPT
                      !["msa_mask"] = Full(FullShape, m),
                      !["msa_sequence_source"] = Full(FullShape, c)],
                  Built(NumResTy, Unbuilt), Vocabulary(size))

NextConstruct ==
    \/ \E n \in 0..(MaxVocab + 1) : Construct(n)
    \/ GetKwargs("MSADataSource")
    \/ Generate("MSADataSource")

SpecConstruct == InitConstruct /\ [][NextConstruct]_vars

MainColumns(Values) ==
    UNION {[1..d -> Values \X BOOLEAN] : d \in 1..ND}
    \cup {[r \in 1..d |-> IF r % 2 = 1 THEN odd ELSE even] :
            d \in {MaxMainDepth - 1, MaxMainDepth},
            odd \in Values \X BOOLEAN, even \in Values \X BOOLEAN}

MainShape(col) == <<NB, Len(col), NT>>

MainValues(col, modulus) ==
    Mk3(MainShape(col), LAMBDA b, r, t : (col[r][1] + (b - 1) + (t - 1)) % modulus)

MainMask(col) ==
    Mk3(MainShape(col), LAMBDA b, r, t : col[((r - 1 + (b - 1) + (t - 1)) % Len(col)) + 1][2])

\* the sum of F(r) over the rows r in lo..hi
RECURSIVE SumRows(_, _, _)
SumRows(F(_), lo, hi) ==
    IF lo > hi THEN 0
    ELSE IF lo = hi THEN F(lo)
    ELSE SumRows(F, lo, (lo + hi) \div 2) + SumRows(F, ((lo + hi) \div 2) + 1, hi)

\* the number of rows r in 1..n for which P(r) holds
CountRows(P(_), n) == Cardinality({r \in 1..n : P(r)})

(***************************************************************************)
(* Profile feature.                                                        *)
(***************************************************************************)
InitProfile ==
    \E col \in MainColumns(0..(NumResTy - 1)) :
        Start([DefaultBatch EXCEPT
                  !["main_msa_tokens"] = MainValues(col, NumResTy),
                  !["main_msa_mask"] = MainMask(col)],
              DefaultBuilt, Vocabulary(DefaultNumClasses))

NextProfile == GetKwargs("MSAProfile") \/ Generate("MSAProfile")

SpecProfile == InitProfile /\ [][NextProfile]_vars

\* rows valid at [b, t], and among them those of residue class code k
ValidRows(b, t) ==
    CountRows(LAMBDA r : batch["main_msa_mask"].at[<<b, r, t>>],
              batch["main_msa_mask"].shape[2])

ClassRows(b, t, k) ==
    CountRows(LAMBDA r : /\ batch["main_msa_mask"].at[<<b, r, t>>]
                         /\ batch["main_msa_tokens"].at[<<b, r, t>>] = k,
              batch["main_msa_mask"].shape[2])

\* the sum of the profile over the vocabulary at [b, t]
RECURSIVE ProfileSum(_, _, _)
ProfileSum(b, t, c) ==
    IF c = 0 THEN <<0, 1>>
    ELSE FracAdd(out["MSAProfile"].at[<<b, t, c>>], ProfileSum(b, t, c - 1))

\* C3: at every batch entry and token, for every depth, the profile sums to
\* 1 over the vocabulary if some row is valid there and to 0 if none is, and
\* no entry is negative.
C3_ProfileSums ==
    IsTensor(out["MSAProfile"]) =>
        \A b \in 1..NB, t \in 1..NT :
            /\ ProfileSum(b, t, NumResTy) = IF ValidRows(b, t) > 0 THEN <<1, 1>> ELSE <<0, 1>>
            /\ \A c \in 1..NumResTy :
                  /\ out["MSAProfile"].at[<<b, t, c>>][1] >= 0
                  /\ out["MSAProfile"].at[<<b, t, c>>][2] > 0

\* C10: at every batch entry, token and residue class, for every depth, the
\* profile is the number of valid rows of that class divided by
\* max(1, number of valid rows).
C10_ProfileIsFrequency ==
    IsTensor(out["MSAProfile"]) =>
        \A b \in 1..NB, t \in 1..NT, c \in 1..NumResTy :
            out["MSAProfile"].at[<<b, t, c>>] =
                Frac(ClassRows(b, t, c - 1),
                     IF ValidRows(b, t) < 1 THEN 1 ELSE ValidRows(b, t))

(***************************************************************************)
(* Deletion-mean feature.                                                  *)
(***************************************************************************)
InitDeletionMean ==
    \E col \in MainColumns(DelVals) :
        Start([DefaultBatch EXCEPT
                  !["main_msa_deletion_matrix"] = MainValues(col, UInt8Mod),
                  !["main_msa_mask"] = MainMask(col)],
              DefaultBuilt, Vocabulary(DefaultNumClasses))

NextDeletionMean == GetKwargs("MSADeletionMean") \/ Generate("MSADeletionMean")

SpecDeletionMean == InitDeletionMean /\ [][NextDeletionMean]_vars

ValidDeletions(b, t) ==
    SumRows(LAMBDA r : IF batch["main_msa_mask"].at[<<b, r, t>>]
                       THEN batch["main_msa_deletion_matrix"].at[<<b, r, t>>] ELSE 0,
            1, batch["main_msa_mask"].shape[2])

\* C4: the output at [b, t] is a number (a fraction with a positive
\* denominator): the sum of the valid rows' deletion counts divided by the
\* number of valid rows where there is one, and exactly 0 where there is none.
C4_DeletionMean ==
    IsTensor(out["MSADeletionMean"]) =>
        \A b \in 1..NB, t \in 1..NT :
            LET o == out["MSADeletionMean"].at[<<b, t, 1>>]
            IN  /\ o[2] > 0
                /\ ValidRows(b, t) > 0 => o[1] * ValidRows(b, t) = o[2] * ValidDeletions(b, t)
                /\ ValidRows(b, t) = 0 => o[1] = 0

\* every row is invalid at some position whose rows hold deletions, and the
\* output there is 0
C4_Witness ==
    /\ IsTensor(out["MSADeletionMean"])
    /\ \E b \in 1..NB, t \in 1..NT :
          /\ batch["main_msa_mask"].shape[2] > 1
          /\ ValidRows(b, t) = 0
          /\ \A r \in 1..batch["main_msa_mask"].shape[2] :
                batch["main_msa_deletion_matrix"].at[<<b, r, t>>] > 0
          /\ out["MSADeletionMean"].at[<<b, t, 1>>][1] = 0

(***************************************************************************)
(* All seven generators on one batch, their two operations interleaved in  *)
(* any order and repeated.                                                 *)
(***************************************************************************)
InitAll ==
    \E k1, k2 \in {0, 1} :
        Start([msa_tokens |-> Mk3(FullShape, LAMBDA b, r, t : (b + r + t) % NumResTy),
               msa_deletion_matrix |-> Mk3(FullShape, LAMBDA b, r, t : (b * r + t) % 3),
               main_msa_tokens |-> Mk3(FullShape, LAMBDA b, r, t : (b + 2 * r + t) % NumResTy),
               main_msa_mask |-> Mk3(FullShape, LAMBDA b, r, t : (r + t + k1) % 2 = 0),
               main_msa_deletion_matrix |-> Mk3(FullShape, LAMBDA b, r, t : (r * t + b) % 4),
               msa_mask |-> Mk3(FullShape, LAMBDA b, r, t : (b + r + t + k2) % 2 = 0),
               msa_species |-> Mk3(FullShape, LAMBDA b, r, t : (r + t) % 3),
               msa_sequence_source |->
                   Mk3(FullShape, LAMBDA b, r, t : (b + t) % DefaultNumClasses)],
              DefaultBuilt, Vocabulary(DefaultNumClasses))

NextAll == \E g \in Gens : GetKwargs(g) \/ Generate(g)

SpecAll == InitAll /\ [][NextAll]_vars

\* C7: no call changes a batch field or a generator's declarations, and
\* whatever calls ran before, every output a generator has produced is the
\* one its _generate gives on its own fields of the batch.
C7_Stateless ==
    /\ [][batch' = batch /\ config' = config]_vars
    /\ [](\A g \in Gens :
            IsTensor(out[g]) => out[g] = Call(g, config[g], KwargsOf(g), batch).data)

\* every generator has produced its output on a batch with masked-out
\* positions
C7_Witness ==
    /\ \A g \in Gens : IsTensor(out[g]) /\ kwargs[g] # {}
    /\ \E i \in Idx3(FullShape) : ~batch["msa_mask"].at[i]

====
